---- MODULE Spec2Model ----
(***************************************************************************)
(* Model of IQN::Optimize (src/mlpack/core/optimizers/iqn/iqn_impl.hpp).   *)
(*                                                                         *)
(* Numbers are the doubles of the code in exact arithmetic: a value is a   *)
(* pair <<num, den>>, a reduced fraction when den > 0, and the three IEEE  *)
(* special values when den = 0: <<1,0>> is +Inf, <<-1,0>> is -Inf and      *)
(* <<0,0>> is NaN.  Rounding is not modelled; signed zeros are not         *)
(* modelled (x / 0 takes the sign of x).                                   *)
(***************************************************************************)
EXTENDS Integers, Sequences, FiniteSets, TLC

\* ------------------------------------------------------------------------
\* Scalars (double)
\* ------------------------------------------------------------------------

Abs(x) == IF x < 0 THEN -x ELSE x

Sign(x) == IF x > 0 THEN 1 ELSE IF x < 0 THEN -1 ELSE 0

RECURSIVE GCD(_, _)
GCD(a, b) == IF b = 0 THEN a ELSE GCD(b, a % b)

NaN == <<0, 0>>

PosInf == <<1, 0>>

NegInf == <<-1, 0>>

\* the reduced fraction n / d, d # 0
Frac(n, d) ==
  LET k == GCD(Abs(n), Abs(d))
  IN  <<Sign(n) * Sign(d) * (Abs(n) \div k), Abs(d) \div k>>

Num(n) == <<n, 1>>

Zero == Num(0)

One == Num(1)

IsNaN(a) == a = NaN

IsInf(a) == a[2] = 0 /\ a[1] # 0

IsFinite(a) == a[2] # 0

RNeg(a) == <<-a[1], a[2]>>

RAdd(a, b) ==
  IF IsNaN(a) \/ IsNaN(b) THEN NaN
  ELSE IF IsInf(a) /\ IsInf(b) THEN (IF a = b THEN a ELSE NaN)
  ELSE IF IsInf(a) THEN a
  ELSE IF IsInf(b) THEN b
  ELSE LET k == GCD(a[2], b[2])
       IN  Frac(a[1] * (b[2] \div k) + b[1] * (a[2] \div k),
                (a[2] \div k) * b[2])

RSub(a, b) == RAdd(a, RNeg(b))

RMul(a, b) ==
  IF IsNaN(a) \/ IsNaN(b) THEN NaN
  ELSE IF IsInf(a) \/ IsInf(b)
       THEN (IF a[1] = 0 \/ b[1] = 0 THEN NaN ELSE <<Sign(a[1]) * Sign(b[1]), 0>>)
  ELSE LET k == GCD(Abs(a[1]), b[2])
           m == GCD(Abs(b[1]), a[2])
       IN  Frac((a[1] \div k) * (b[1] \div m), (a[2] \div m) * (b[2] \div k))

RDiv(a, b) ==
  IF IsNaN(a) \/ IsNaN(b) THEN NaN
  ELSE IF IsInf(b) THEN (IF IsInf(a) THEN NaN ELSE Zero)
  ELSE IF b[1] = 0 THEN (IF a[1] = 0 THEN NaN ELSE <<Sign(a[1]), 0>>)
  ELSE IF IsInf(a) THEN <<Sign(a[1]) * Sign(b[1]), 0>>
  ELSE LET k == GCD(Abs(a[1]), Abs(b[1]))
           m == GCD(a[2], b[2])
       IN  Frac((a[1] \div k) * (b[2] \div m), (a[2] \div m) * (b[1] \div k))

\* a < b for two non-negative fractions p/q and r/s, by their continued
\* fractions (no product of a numerator and a denominator is formed)
RECURSIVE FracLess(_, _, _, _)
FracLess(p, q, r, s) ==
  LET fa == p \div q
      fb == r \div s
      ra == p % q
      rb == r % s
  IN  IF fa # fb THEN fa < fb
      ELSE IF rb = 0 THEN FALSE
      ELSE IF ra = 0 THEN TRUE
      ELSE FracLess(s, rb, q, ra)

\* the comparison a < b of doubles: false when either side is NaN
RLess(a, b) ==
  IF IsNaN(a) \/ IsNaN(b) THEN FALSE
  ELSE IF a = b THEN FALSE
  ELSE IF a = NegInf \/ b = PosInf THEN TRUE
  ELSE IF a = PosInf \/ b = NegInf THEN FALSE
  ELSE IF a[1] < 0 /\ b[1] >= 0 THEN TRUE
  ELSE IF a[1] >= 0 /\ b[1] < 0 THEN FALSE
  ELSE IF a[1] >= 0 THEN FracLess(a[1], a[2], b[1], b[2])
  ELSE FracLess(-b[1], b[2], -a[1], a[2])

\* ------------------------------------------------------------------------
\* Vectors and matrices (arma::mat): a vector is a function on 1..k, a
\* matrix a function on 1..k of its rows
\* ------------------------------------------------------------------------

Dim(v) == Cardinality(DOMAIN v)

RECURSIVE SumTo(_, _)
SumTo(f, k) == IF k = 0 THEN Zero ELSE RAdd(SumTo(f, k - 1), f[k])

VAdd(v, w) == [k \in DOMAIN v |-> RAdd(v[k], w[k])]

VSub(v, w) == [k \in DOMAIN v |-> RSub(v[k], w[k])]

VScale(c, v) == [k \in DOMAIN v |-> RMul(c, v[k])]

Dot(v, w) == SumTo([k \in DOMAIN v |-> RMul(v[k], w[k])], Dim(v))

MAdd(M, N) == [r \in DOMAIN M |-> VAdd(M[r], N[r])]

MSub(M, N) == [r \in DOMAIN M |-> VSub(M[r], N[r])]

MScale(c, M) == [r \in DOMAIN M |-> VScale(c, M[r])]

\* every entry of M divided by the scalar c
MDivScalar(M, c) == [r \in DOMAIN M |-> [k \in DOMAIN M[r] |-> RDiv(M[r][k], c)]]

Col(M, k) == [r \in DOMAIN M |-> M[r][k]]

MVec(M, v) == [r \in DOMAIN M |-> Dot(M[r], v)]

VecM(v, M) == [k \in DOMAIN v |-> Dot(v, Col(M, k))]

MMul(M, N) == [r \in DOMAIN M |-> VecM(M[r], N)]

\* v * w.t()
Outer(v, w) == [r \in DOMAIN v |-> [k \in DOMAIN w |-> RMul(v[r], w[k])]]

Eye(d) == [r \in 1..d |-> [k \in 1..d |-> IF r = k THEN One ELSE Zero]]

NaNVec(d) == [k \in 1..d |-> NaN]

NaNMat(d) == [r \in 1..d |-> NaNVec(d)]

VFinite(v) == \A k \in DOMAIN v : IsFinite(v[k])

MFinite(M) == \A r \in DOMAIN M : VFinite(M[r])

Minor(M, i, j) ==
  [r \in 1..(Dim(M) - 1) |->
     [k \in 1..(Dim(M) - 1) |->
        M[IF r < i THEN r ELSE r + 1][IF k < j THEN k ELSE k + 1]]]

RECURSIVE Det(_)
Det(M) ==
  IF Dim(M) = 0 THEN One
  ELSE SumTo([k \in 1..Dim(M) |->
                RMul(IF k % 2 = 1 THEN M[1][k] ELSE RNeg(M[1][k]),
                     Det(Minor(M, 1, k)))], Dim(M))

\* the inverse of a finite, non-singular matrix (adjugate over determinant)
Inverse(M) ==
  LET dt == Det(M)
  IN  [r \in DOMAIN M |->
        [k \in DOMAIN M |->
           RDiv(RMul(IF (r + k) % 2 = 0 THEN One ELSE RNeg(One),
                     Det(Minor(M, k, r))), dt)]]

\* ------------------------------------------------------------------------
\* The decomposable function (DecomposableFunctionType): the optimizer
\* uses NumFunctions(), Gradient(point, i) and Evaluate(point, i) only.
\* The inputs are sums of separable quadratics
\*   f_i(x) = 1/2 * sum_k A[i][k] * (x[k] - c[i][k])^2
\* ------------------------------------------------------------------------

\* a function of n components in d dimensions; A and c list, for the
\* components 0..n-1, the integer curvatures and centers
Quadratic(n, d, A, c) ==
  [n |-> n, d |-> d,
   A |-> [i \in 0..(n - 1) |-> [k \in 1..d |-> Num(A[i + 1][k])]],
   c |-> [i \in 0..(n - 1) |-> [k \in 1..d |-> Num(c[i + 1][k])]]]

NumFunctions(f) == f.n

Gradient(f, x, i) ==
  [k \in 1..f.d |-> RMul(f.A[i][k], RSub(x[k], f.c[i][k]))]

Evaluate(f, x, i) ==
  RMul(Frac(1, 2),
       SumTo([k \in 1..f.d |->
                RMul(f.A[i][k],
                     RMul(RSub(x[k], f.c[i][k]), RSub(x[k], f.c[i][k])))],
             f.d))

\* the convex quadratic sum with centers (0,0), (1,0), (0,1), (1,1)
QuadSum ==
  Quadratic(4, 2, <<<<1, 1>>, <<1, 1>>, <<1, 1>>, <<1, 1>>>>,
                  <<<<0, 0>>, <<1, 0>>, <<0, 1>>, <<1, 1>>>>)

\* functions of one variable: convex, concave, and sums with a concave or
\* a constant component
ScalarFunctions ==
  { Quadratic(1, 1, <<<<2>>>>, <<<<1>>>>),
    Quadratic(1, 1, <<<<-1>>>>, <<<<1>>>>),
    Quadratic(2, 1, <<<<1>>, <<2>>>>, <<<<0>>, <<1>>>>),
    Quadratic(2, 1, <<<<1>>, <<-1>>>>, <<<<0>>, <<1>>>>),
    Quadratic(2, 1, <<<<1>>, <<0>>>>, <<<<0>>, <<1>>>>),
    Quadratic(3, 1, <<<<1>>, <<-1>>, <<2>>>>, <<<<0>>, <<1>>, <<1>>>>) }

\* functions of two variables
PlanarFunctions ==
  { QuadSum,
    Quadratic(1, 2, <<<<1, 2>>>>, <<<<1, 0>>>>),
    Quadratic(2, 2, <<<<1, 1>>, <<1, 3>>>>, <<<<0, 0>>, <<1, 1>>>>),
    Quadratic(2, 2, <<<<1, 1>>, <<1, -1>>>>, <<<<0, 0>>, <<1, 0>>>>) }

\* ------------------------------------------------------------------------
\* Bounds and inputs
\* ------------------------------------------------------------------------

\* the largest maxIterations of the runs on a function of one variable
MaxIter == 3

\* the sweeps modelled of a run without a limit (maxIterations = 0)
MaxSweeps == 2

Coords == {Num(-1), Num(0), Num(2)}

Points(d) == [1..d -> Coords]

StepSizes == {One, Frac(1, 2)}

Tolerances == {Zero, Frac(1, 1000000)}

\* the runs: the functions of one variable under every setting, the
\* functions of two variables for at most one sweep (the fractions of the
\* rank-two update grow with every update), and the convex quadratic sum
\* under stepSize = 1.0, tolerance = 1e-6 and maxIterations = 50
Runs ==
  [function : ScalarFunctions, stepSize : StepSizes,
   maxIterations : 0..MaxIter, tolerance : Tolerances]
  \cup
  [function : PlanarFunctions, stepSize : StepSizes,
   maxIterations : 1..2, tolerance : Tolerances]
  \cup
  {[function |-> QuadSum, stepSize |-> One,
    maxIterations |-> 50, tolerance |-> Frac(1, 1000000)]}

\* ------------------------------------------------------------------------
\* IQN::Optimize, expression by expression
\* ------------------------------------------------------------------------

\* the mean of the vectors vs[0..n-1], accumulated from zero and divided
\* by n at the end
MeanVec(vs, n, d) ==
  [k \in 1..d |-> RDiv(SumTo([m \in 1..n |-> vs[m - 1][k]], n), Num(n))]

InitialTFromIterate(seed, x) == x

\* the point stored for every component: the seed point, not the iterate
InitialT(seed, x) == seed

InitialY(f, seed, m) == Gradient(f, seed, m)

InitialQ(d) == Eye(d)

InitialG(f, seed) ==
  MeanVec([m \in 0..(NumFunctions(f) - 1) |-> Gradient(f, seed, m)],
          NumFunctions(f), f.d)

CyclicIndexPlain(jj, n) == jj % n

CyclicIndex(jj, n) == (jj + 1) % n

\* arma::norm(v) > 0
NormPositive(v) == RLess(Zero, Dot(v, v))

MovedAlways(x, tOld) == TRUE

Moved(x, tOld) == NormPositive(VSub(x, tOld))

SecantS(x, tOld) == VSub(x, tOld)

SecantY(gradient, yOld) == VSub(gradient, yOld)

\* the update whose last term lacks the trailing factor Q
StochasticHessianOneSided(Qold, s, yy) ==
  MSub(MAdd(Qold, MDivScalar(Outer(yy, yy), Dot(yy, s))),
       MDivScalar(Outer(MVec(Qold, s), s),
                  Dot(VecM(s, Qold), s)))

StochasticHessian(Qold, s, yy) ==
  MSub(MAdd(Qold, MDivScalar(Outer(yy, yy), Dot(yy, s))),
       MDivScalar(MMul(Outer(MVec(Qold, s), s), Qold),
                  Dot(VecM(s, Qold), s)))

\* the update without the factor 1 / numFunctions
UpdateBUnscaled(Bold, n, sh, Qold) == MAdd(Bold, MSub(sh, Qold))

\* the update computed after the table already holds the new curvature
UpdateBAfterCommit(Bold, n, sh, Qold) ==
  MAdd(Bold, MScale(RDiv(One, Num(n)), MSub(sh, sh)))

UpdateB(Bold, n, sh, Qold) ==
  MAdd(Bold, MScale(RDiv(One, Num(n)), MSub(sh, Qold)))

\* the update that takes the old product at the iterate, not at t
UpdateUStale(uold, n, sh, x, Qold, tOld) ==
  VAdd(uold, VScale(RDiv(One, Num(n)), VSub(MVec(sh, x), MVec(Qold, x))))

UpdateU(uold, n, sh, x, Qold, tOld) ==
  VAdd(uold, VScale(RDiv(One, Num(n)), VSub(MVec(sh, x), MVec(Qold, tOld))))

\* the update that does not take the old gradient out
UpdateGKeepOld(gold, n, gradient, yOld) ==
  VAdd(gold, VScale(RDiv(One, Num(n)), gradient))

UpdateG(gold, n, gradient, yOld) ==
  VAdd(gold, VScale(RDiv(One, Num(n)), VSub(gradient, yOld)))

\* B.i(): the inverse of a finite non-singular matrix; a finite singular
\* one makes inv() throw std::runtime_error; for a matrix with NaN or Inf
\* entries the factorisation either reports failure (inv() throws) or
\* returns entries that are not numbers
InvResults(Bm) ==
  IF MFinite(Bm)
  THEN IF Det(Bm) = Zero
       THEN {[ok |-> FALSE, inv |-> NaNMat(Dim(Bm))]}
       ELSE {[ok |-> TRUE, inv |-> Inverse(Bm)]}
  ELSE {[ok |-> FALSE, inv |-> NaNMat(Dim(Bm))],
        [ok |-> TRUE, inv |-> NaNMat(Dim(Bm))]}

\* the step without the (1 - stepSize) * iterateVec term
NewtonStepUndamped(ss, Binv, uu, gg, x) ==
  MVec(MScale(ss, Binv), VSub(uu, gg))

NewtonStep(ss, Binv, uu, gg, x) ==
  VAdd(MVec(MScale(ss, Binv), VSub(uu, gg)), VScale(RSub(One, ss), x))

OverallObjective(f, x) ==
  RDiv(SumTo([m \in 1..NumFunctions(f) |-> Evaluate(f, x, m - 1)],
             NumFunctions(f)),
       Num(NumFunctions(f)))

\* the check without std::isnan
IsInfOnly(obj) == IsInf(obj)

IsNumericalFailure(obj) == IsNaN(obj) \/ IsInf(obj)

\* the comparison with its sides exchanged
IsConvergedSwapped(obj, tol) == RLess(tol, obj)

IsConverged(obj, tol) == RLess(obj, tol)

\* the loop condition written as i < maxIterations
LoopContinuesLess(ii, maxIt) == ii < maxIt

LoopContinues(ii, maxIt) == ii # maxIt

\* ------------------------------------------------------------------------
\* State
\* ------------------------------------------------------------------------

VARIABLES
  function,          \* the function being optimized
  stepSize,          \* IQN::stepSize
  maxIterations,     \* IQN::maxIterations
  tolerance,         \* IQN::tolerance
  iterate,           \* the caller's iterate (iterateVec aliases it)
  initialIterate,    \* the random seed point; <<>> before it is drawn
  y, t, Q,           \* the per-function tables, indexed 0..n-1
  B, u, g,           \* the aggregates
  i, j,              \* the loop counters
  overallObjective,  \* the value Optimize returns
  pc,                \* where Optimize is
  outcome,           \* how the run ended ("RUNNING" until it has)
  trace,             \* the objectives logged, one per sweep
  gradCalls,         \* calls of function.Gradient so far
  updates,           \* inner steps that were not skipped
  firstYs,           \* <<yy.t() * s>> of the first such step, else <<>>
  startIterate,      \* the iterate the caller passed in
  visits,            \* the component indices visited in the current sweep
  skips              \* the component indices skipped in the current sweep

vars ==
  <<function, stepSize, maxIterations, tolerance, iterate, initialIterate,
    y, t, Q, B, u, g, i, j, overallObjective, pc, outcome, trace,
    gradCalls, updates, firstYs, startIterate, visits, skips>>

inputs == <<function, stepSize, maxIterations, tolerance>>

tables == <<y, t, Q>>

aggregates == <<B, u, g>>

history == <<trace, gradCalls, updates, firstYs, startIterate>>

visitLog == <<visits, skips>>

n == NumFunctions(function)

Init ==
  /\ \E r \in Runs :
       /\ function = r.function
       /\ stepSize = r.stepSize
       /\ maxIterations = r.maxIterations
       /\ tolerance = r.tolerance
  /\ iterate \in Points(function.d)
  /\ initialIterate = <<>>
  /\ y = <<>> /\ t = <<>> /\ Q = <<>>
  /\ B = <<>> /\ u = <<>> /\ g = <<>>
  /\ i = 0 /\ j = 0
  /\ overallObjective = Zero
  /\ pc = "start"
  /\ outcome = "RUNNING"
  /\ trace = <<>>
  /\ gradCalls = 0
  /\ updates = 0
  /\ firstYs = <<>>
  /\ startIterate = iterate
  /\ visits = <<>>
  /\ skips = <<>>

\* lines 36-65: the tables and the aggregates from a random seed point
Initialize ==
  /\ pc = "start"
  /\ \E seed \in Points(function.d) :
       /\ initialIterate' = seed
       /\ t' = [m \in 0..(n - 1) |-> InitialT(seed, iterate)]
       /\ y' = [m \in 0..(n - 1) |-> InitialY(function, seed, m)]
       /\ Q' = [m \in 0..(n - 1) |-> InitialQ(function.d)]
       /\ B' = Eye(function.d)
       /\ g' = InitialG(function, seed)
       /\ u' = seed
  /\ gradCalls' = gradCalls + n
  /\ i' = 1
  /\ pc' = "outer"
  /\ UNCHANGED <<inputs, iterate, j, overallObjective, outcome, trace,
                 updates, firstYs, startIterate, visitLog>>

\* line 67, loop condition true: a sweep starts
SweepBegin ==
  /\ pc = "outer"
  /\ LoopContinues(i, maxIterations)
  /\ (maxIterations = 0 => i <= MaxSweeps)
  /\ j' = 0
  /\ visits' = <<>>
  /\ skips' = <<>>
  /\ pc' = "inner"
  /\ UNCHANGED <<inputs, iterate, initialIterate, tables, aggregates, i,
                 overallObjective, outcome, history>>

\* lines 69-101, guard true: the inner step of component (j + 1) % n
InnerStep ==
  /\ pc = "inner"
  /\ j < n
  /\ LET it == CyclicIndex(j, n)
         gradient == Gradient(function, iterate, it)
         s == SecantS(iterate, t[it])
         yy == SecantY(gradient, y[it])
         sh == StochasticHessian(Q[it], s, yy)
         Bnew == UpdateB(B, n, sh, Q[it])
         unew == UpdateU(u, n, sh, iterate, Q[it], t[it])
         gnew == UpdateG(g, n, gradient, y[it])
     IN  /\ Moved(iterate, t[it])
         /\ B' = Bnew
         /\ u' = unew
         /\ g' = gnew
         /\ Q' = [Q EXCEPT ![it] = sh]
         /\ y' = [y EXCEPT ![it] = gradient]
         /\ t' = [t EXCEPT ![it] = iterate]
         /\ firstYs' = IF updates = 0 THEN <<Dot(yy, s)>> ELSE firstYs
         /\ \E r \in InvResults(Bnew) :
              IF r.ok
              THEN /\ iterate' = NewtonStep(stepSize, r.inv, unew, gnew, iterate)
                   /\ j' = j + 1
                   /\ UNCHANGED <<pc, outcome>>
              ELSE /\ pc' = "done"
                   /\ outcome' = "EXCEPTION"
                   /\ UNCHANGED <<iterate, j>>
  /\ gradCalls' = gradCalls + 1
  /\ updates' = updates + 1
  /\ visits' = Append(visits, CyclicIndex(j, n))
  /\ UNCHANGED <<inputs, initialIterate, i, overallObjective, trace,
                 startIterate, skips>>

\* lines 69-74, guard false: the component is skipped
InnerSkip ==
  /\ pc = "inner"
  /\ j < n
  /\ ~Moved(iterate, t[CyclicIndex(j, n)])
  /\ j' = j + 1
  /\ visits' = Append(visits, CyclicIndex(j, n))
  /\ skips' = Append(skips, CyclicIndex(j, n))
  /\ UNCHANGED <<inputs, iterate, initialIterate, tables, aggregates, i,
                 overallObjective, pc, outcome, history>>

\* lines 104-111: the objective of the sweep
EvaluateObjective ==
  /\ pc = "inner"
  /\ j = n
  /\ overallObjective' = OverallObjective(function, iterate)
  /\ trace' = Append(trace, overallObjective')
  /\ pc' = "check"
  /\ UNCHANGED <<inputs, iterate, initialIterate, tables, aggregates, i, j,
                 outcome, gradCalls, updates, firstYs, startIterate,
                 visitLog>>

\* lines 113-118
NumericalFailure ==
  /\ pc = "check"
  /\ IsNumericalFailure(overallObjective)
  /\ pc' = "done"
  /\ outcome' = "NUMERICAL_FAILURE"
  /\ UNCHANGED <<inputs, iterate, initialIterate, tables, aggregates, i, j,
                 overallObjective, history, visitLog>>

\* lines 120-125
Converged ==
  /\ pc = "check"
  /\ ~IsNumericalFailure(overallObjective)
  /\ IsConverged(overallObjective, tolerance)
  /\ pc' = "done"
  /\ outcome' = "CONVERGED"
  /\ UNCHANGED <<inputs, iterate, initialIterate, tables, aggregates, i, j,
                 overallObjective, history, visitLog>>

\* lines 126 and 67: ++i
NextSweep ==
  /\ pc = "check"
  /\ ~IsNumericalFailure(overallObjective)
  /\ ~IsConverged(overallObjective, tolerance)
  /\ i' = i + 1
  /\ pc' = "outer"
  /\ UNCHANGED <<inputs, iterate, initialIterate, tables, aggregates, j,
                 overallObjective, outcome, history, visitLog>>

\* line 67, loop condition false, and lines 128-131
MaxIterationsReached ==
  /\ pc = "outer"
  /\ ~LoopContinues(i, maxIterations)
  /\ pc' = "done"
  /\ outcome' = "MAX_ITERATIONS_REACHED"
  /\ UNCHANGED <<inputs, iterate, initialIterate, tables, aggregates, i, j,
                 overallObjective, history, visitLog>>

Next ==
  \/ Initialize
  \/ SweepBegin
  \/ InnerStep
  \/ InnerSkip
  \/ EvaluateObjective
  \/ NumericalFailure
  \/ Converged
  \/ NextSweep
  \/ MaxIterationsReached

Spec == Init /\ [][Next]_vars

\* ------------------------------------------------------------------------
\* The rank-two update of lines 76-82 on its own, from any stored triple
\* ------------------------------------------------------------------------

\* the single function of two variables the triples belong to
RankTwoFunction == Quadratic(1, 2, <<<<1, 2>>>>, <<<<1, 0>>>>)

CurvatureEntries == {Num(-1), Num(0), Num(2)}

\* the stored curvatures: symmetric or not, singular or not
Curvatures == [1..2 -> [1..2 -> CurvatureEntries]]

StoredPoints == {<<Num(0), Num(0)>>, <<Num(2), Num(-1)>>}

\* a stored triple (t_0, y_0, Q_0) and an iterate, before the update
RankTwoInit ==
  /\ function = RankTwoFunction
  /\ stepSize = One
  /\ maxIterations = 2
  /\ tolerance = Zero
  /\ iterate \in Points(2)
  /\ initialIterate \in StoredPoints
  /\ t = [m \in {0} |-> initialIterate]
  /\ y \in [{0} -> Points(2)]
  /\ Q \in [{0} -> Curvatures]
  /\ B = Q[0]
  /\ u = MVec(Q[0], t[0])
  /\ g = y[0]
  /\ i = 1
  /\ j = 0
  /\ overallObjective = Zero
  /\ pc = "rankTwo"
  /\ outcome = "RUNNING"
  /\ trace = <<>>
  /\ gradCalls = 0
  /\ updates = 0
  /\ firstYs = <<>>
  /\ startIterate = iterate
  /\ visits = <<>>
  /\ skips = <<>>

\* lines 76-82 and 95: the secant pair, the rank-two update, its commit
RankTwoUpdate ==
  /\ pc = "rankTwo"
  /\ LET gradient == Gradient(function, iterate, 0)
         s == SecantS(iterate, t[0])
         yy == SecantY(gradient, y[0])
     IN  Q' = [Q EXCEPT ![0] = StochasticHessian(Q[0], s, yy)]
  /\ pc' = "rankTwoDone"
  /\ UNCHANGED <<inputs, iterate, initialIterate, y, t, aggregates, i, j,
                 overallObjective, outcome, history, visitLog>>

SpecRankTwo == RankTwoInit /\ [][RankTwoUpdate]_vars

\* ------------------------------------------------------------------------
\* Properties
\* ------------------------------------------------------------------------

Done == pc = "done"

Sweeps == Len(trace)

Half == Frac(1, 2)

\* (1/n) * sum of the stored local curvatures, from scratch
MeanQ ==
  [r \in 1..function.d |->
     [k \in 1..function.d |->
        RMul(RDiv(One, Num(n)), SumTo([m \in 1..n |-> Q[m - 1][r][k]], n))]]

\* (1/n) * sum of Q_i * t_i, from scratch
MeanQt ==
  [r \in 1..function.d |->
     RMul(RDiv(One, Num(n)),
          SumTo([m \in 1..n |-> MVec(Q[m - 1], t[m - 1])[r]], n))]

\* C1: after initialization and after every inner step that was not
\* skipped, the aggregate curvature B is (1/n) * sum_i Q_i (in exact
\* arithmetic, that is while the entries of B are numbers)
C1_AggregateCurvature ==
  (pc # "start" /\ MFinite(B)) => B = MeanQ

\* C1's case: two components, two updates, and B no longer the identity
C1_Witness ==
  /\ n >= 2 /\ updates >= 2 /\ MFinite(B)
  /\ B # Eye(function.d)
  /\ Q[0] # Q[1]

\* C2: after initialization and at the end of every sweep, the aggregate
\* gradient g is the mean of the stored gradients y_i, recomputed from
\* scratch
C2_AggregateGradient ==
  (pc \in {"outer", "check"}) => g = MeanVec(y, n, function.d)

\* C2's case: the end of a sweep that changed g
C2_Witness ==
  /\ pc = "check" /\ n >= 2 /\ updates >= 2
  /\ g # InitialG(function, initialIterate)

\* C3: after initialization and after every inner step that was not
\* skipped, the aggregate u is (1/n) * sum_i Q_i * t_i (while its entries
\* are numbers)
C3_AggregateProduct ==
  (pc # "start" /\ VFinite(u)) => u = MeanQt

\* C3's case: two updates of a function of two components, u changed
C3_Witness ==
  /\ n >= 2 /\ updates >= 2 /\ VFinite(u) /\ MFinite(B)
  /\ u # initialIterate
  /\ Q[1] # Eye(function.d)

\* C4: a run ends through one of the three outcomes, chosen after a sweep
\* by the checks in their order: NUMERICAL_FAILURE if and only if the
\* objective of the sweep is NaN or infinite, else CONVERGED if and only
\* if it is below the tolerance, else MAX_ITERATIONS_REACHED
C4_OutcomeAfterSweep ==
  Done =>
    /\ outcome \in {"NUMERICAL_FAILURE", "CONVERGED", "MAX_ITERATIONS_REACHED"}
    /\ Sweeps >= 1
    /\ (outcome = "NUMERICAL_FAILURE") = IsNumericalFailure(trace[Sweeps])
    /\ (outcome = "CONVERGED") =
         (~IsNumericalFailure(trace[Sweeps]) /\ RLess(trace[Sweeps], tolerance))
    /\ (outcome = "MAX_ITERATIONS_REACHED") =
         (~IsNumericalFailure(trace[Sweeps]) /\ ~RLess(trace[Sweeps], tolerance))

\* C5: a run that ends with MAX_ITERATIONS_REACHED has performed exactly
\* maxIterations sweeps
C5_SweepBudget ==
  (Done /\ outcome = "MAX_ITERATIONS_REACHED") => Sweeps = maxIterations

\* C6: the value returned is an objective that was computed: the mean of
\* the component values at the final iterate
C6_ReturnedValueComputed ==
  (Done /\ outcome \in {"NUMERICAL_FAILURE", "CONVERGED", "MAX_ITERATIONS_REACHED"}) =>
    /\ Sweeps >= 1
    /\ overallObjective = trace[Sweeps]
    /\ overallObjective = OverallObjective(function, iterate)

\* C7: every objective of the trace but the last is finite, and a last one
\* that is NaN or infinite ends the run as NUMERICAL_FAILURE: it is only
\* seen at the check that follows it or in a run that ended that way
C7_TraceFiniteUntilFailure ==
  /\ \A k \in 1..(Sweeps - 1) : IsFinite(trace[k])
  /\ (Sweeps >= 1 /\ ~IsFinite(trace[Sweeps])) =>
        \/ pc = "check" /\ outcome = "RUNNING"
        \/ Done /\ outcome = "NUMERICAL_FAILURE"

\* C7's case: a run ended as NUMERICAL_FAILURE on an objective that is NaN
C7_Witness ==
  /\ Done /\ outcome = "NUMERICAL_FAILURE"
  /\ Sweeps >= 1 /\ IsNaN(trace[Sweeps])
  /\ updates >= 1

SecantNotPositive ==
  /\ Len(firstYs) = 1
  /\ (firstYs[1] = Zero \/ RLess(firstYs[1], Zero))

\* C8: a run whose first inner step that was not skipped had yy.t() * s <= 0
\* and that returns, returns as NUMERICAL_FAILURE (never as CONVERGED or
\* as MAX_ITERATIONS_REACHED)
C8_DegenerateSecantFails ==
  (Done /\ SecantNotPositive /\ outcome # "EXCEPTION") =>
    outcome = "NUMERICAL_FAILURE"

IsScenario ==
  /\ function = QuadSum
  /\ stepSize = One
  /\ maxIterations = 50
  /\ tolerance = Frac(1, 1000000)

Center == <<Half, Half>>

\* C9 as claimed: on the convex quadratic sum the run ends CONVERGED in
\* fewer than 50 sweeps with the final iterate (0.5, 0.5)
C9_Original ==
  (IsScenario /\ Done) =>
    /\ outcome = "CONVERGED"
    /\ RLess(overallObjective, tolerance)
    /\ Sweeps < 50
    /\ iterate = Center

\* C9 as amended: on the convex quadratic sum the run ends with
\* MAX_ITERATIONS_REACHED in fewer than 50 sweeps, never CONVERGED; from a
\* starting iterate other than the seed point the final iterate is
\* (0.5, 0.5) and the objective 1/4 (the minimum, above the tolerance);
\* from the seed point itself the iterate never moves
C9_Amended ==
  (IsScenario /\ Done) =>
    /\ outcome = "MAX_ITERATIONS_REACHED"
    /\ Sweeps < 50
    /\ ~RLess(overallObjective, tolerance)
    /\ (startIterate # initialIterate =>
          iterate = Center /\ overallObjective = Frac(1, 4))
    /\ (startIterate = initialIterate => iterate = startIterate)

\* C9's case: a finished run of the scenario from an iterate that is not
\* the seed point
C9_Witness ==
  /\ IsScenario /\ Done
  /\ startIterate # initialIterate
  /\ iterate = Center
  /\ updates >= 1

\* the rank-two-updated curvature of component 0, from the stored triple
ReferenceQnew ==
  StochasticHessian(Q[0], VSub(iterate, t[0]),
                    VSub(Gradient(function, iterate, 0), y[0]))

\* the reference damped Newton step x - stepSize * Qnew^{-1} * grad f_0(x)
ReferenceNewton ==
  VSub(iterate,
       VScale(stepSize,
              MVec(Inverse(ReferenceQnew), Gradient(function, iterate, 0))))

\* C10: with a single component function, every inner step that is not
\* skipped (and whose curvature is a matrix of numbers that inv() inverts)
\* sets the iterate to the reference damped Newton step
C10_SingleFunctionNewton ==
  [][(/\ pc = "inner"
      /\ n = 1
      /\ updates' = updates + 1
      /\ outcome' # "EXCEPTION"
      /\ MFinite(ReferenceQnew))
     => iterate' = ReferenceNewton]_vars

\* C10's case: a damped step (stepSize 1/2) of a single function of two
\* variables that moved the iterate
C10_Witness ==
  /\ n = 1 /\ function.d = 2 /\ updates >= 1
  /\ stepSize = Half
  /\ VFinite(iterate)
  /\ iterate # t[0]

\* the component visited last in the current sweep
LastVisited == visits[Len(visits)]

\* the last visit of the current sweep was skipped
LastSkipped ==
  /\ Len(skips) >= 1
  /\ skips[Len(skips)] = LastVisited

\* C11: a visit of a component whose stored point is exactly the iterate
\* is a no-op: no gradient is evaluated and no stored point, stored
\* gradient, stored curvature, aggregate or iterate changes; only the inner
\* counter moves on
C11_SkipIsNoOp ==
  [][(/\ pc = "inner"
      /\ j < n
      /\ iterate = t[CyclicIndex(j, n)])
     => (/\ UNCHANGED <<tables, aggregates, iterate, gradCalls, updates>>
         /\ outcome' = "RUNNING"
         /\ j' = j + 1)]_vars

\* C11's case: after at least one update the run came back to a component
\* whose stored point is the (finite) iterate, and skipped it
C11_Witness ==
  /\ pc = "inner"
  /\ updates >= 1
  /\ LastSkipped
  /\ VFinite(iterate)
  /\ iterate = t[LastVisited]

\* C12: whenever the stored point of the visited component differs from the
\* iterate (an iterate with NaN or infinite entries included) the full inner
\* step is performed: one gradient evaluation, the three aggregates updated,
\* the record rewritten and, when inv() returns, the iterate replaced by
\* stepSize * B^{-1} * (u - g) + (1 - stepSize) * iterate, computed from the
\* updated aggregates
C12_FullStepWheneverDifferent ==
  [][(/\ pc = "inner"
      /\ j < n
      /\ iterate # t[CyclicIndex(j, n)])
     => LET it == CyclicIndex(j, n)
            gradient == Gradient(function, iterate, it)
            Qnew == StochasticHessian(Q[it], VSub(iterate, t[it]),
                                      VSub(gradient, y[it]))
        IN  /\ gradCalls' = gradCalls + 1
            /\ updates' = updates + 1
            /\ t' = [t EXCEPT ![it] = iterate]
            /\ y' = [y EXCEPT ![it] = gradient]
            /\ Q' = [Q EXCEPT ![it] = Qnew]
            /\ B' = UpdateB(B, n, Qnew, Q[it])
            /\ u' = UpdateU(u, n, Qnew, iterate, Q[it], t[it])
            /\ g' = UpdateG(g, n, gradient, y[it])
            /\ (outcome' # "EXCEPTION" =>
                  \E r \in InvResults(B') :
                    /\ r.ok
                    /\ iterate' =
                         NewtonStep(stepSize, r.inv, u', g', iterate))]_vars

\* the order 1, 2, ..., n - 1, 0 of the components
CyclicOrder == [k \in 1..n |-> IF k = n THEN 0 ELSE k]

\* C13: in every sweep the components are visited in the cyclic order
\* 1, 2, ..., n - 1, 0, the same in every sweep and for every n >= 1: the
\* visits made so far are the first j entries of that order, and a sweep
\* that reaches the evaluation of the objective has visited every index of
\* 0..n-1 exactly once
C13_CyclicVisitOrder ==
  /\ Len(visits) <= n
  /\ \A k \in 1..Len(visits) : visits[k] = CyclicOrder[k]
  /\ (pc = "inner" => Len(visits) = j)
  /\ (pc = "check" =>
        \A m \in 0..(n - 1) :
          Cardinality({k \in 1..Len(visits) : visits[k] = m}) = 1)

\* C13's case: the second sweep over three components is complete
C13_Witness ==
  /\ pc = "check"
  /\ n = 3
  /\ Sweeps = 2
  /\ visits = <<1, 2, 0>>

\* initialization has finished and no sweep has started
Initialized == pc = "outer" /\ i = 1

\* C14: initialization makes exactly n gradient evaluations, all at the one
\* random seed point; every component's record is (seed point, gradient of
\* the component at the seed point, identity); the caller's iterate is not
\* what the records are seeded from and is not modified
C14_InitialRecords ==
  Initialized =>
    /\ gradCalls = n
    /\ initialIterate \in Points(function.d)
    /\ \A m \in 0..(n - 1) :
         /\ t[m] = initialIterate
         /\ y[m] = Gradient(function, initialIterate, m)
         /\ Q[m] = Eye(function.d)
    /\ iterate = startIterate

\* C14's case: several functions of two variables initialized from a seed
\* point that is not the caller's iterate
C14_Witness ==
  /\ Initialized
  /\ n >= 2
  /\ function.d = 2
  /\ initialIterate # startIterate

\* the factor 1 / numFunctions of the aggregate updates
OverN == RDiv(One, Num(n))

\* C15: in an inner step that is not skipped, the three aggregate deltas
\* are computed against the old stored triple (t_it, y_it, Q_it) before it
\* is overwritten; the record becomes (iterate before the Newton step,
\* gradient at that iterate, Qnew); the records of the other components do
\* not change
C15_CommitOrdering ==
  [][(pc = "inner" /\ updates' = updates + 1)
     => LET it == CyclicIndex(j, n)
            gradient == Gradient(function, iterate, it)
            Qnew == StochasticHessian(Q[it], VSub(iterate, t[it]),
                                      VSub(gradient, y[it]))
            deltaB == MSub(Qnew, Q[it])
            deltaU == VSub(MVec(Qnew, iterate), MVec(Q[it], t[it]))
            deltaG == VSub(gradient, y[it])
        IN  /\ B' = MAdd(B, MScale(OverN, deltaB))
            /\ u' = VAdd(u, VScale(OverN, deltaU))
            /\ g' = VAdd(g, VScale(OverN, deltaG))
            /\ t'[it] = iterate
            /\ y'[it] = gradient
            /\ Q'[it] = Qnew
            /\ \A m \in 0..(n - 1) \ {it} :
                 /\ t'[m] = t[m]
                 /\ y'[m] = y[m]
                 /\ Q'[m] = Q[m]]_vars

\* C15's case: a component's record was rewritten with numbers and the
\* Newton step then moved the iterate away from the stored point, while
\* another component still holds its initial record
C15_Witness ==
  /\ pc = "inner"
  /\ n >= 2
  /\ Len(visits) >= 1
  /\ ~LastSkipped
  /\ VFinite(iterate)
  /\ MFinite(Q[LastVisited])
  /\ Q[LastVisited] # Eye(function.d)
  /\ t[LastVisited] # initialIterate
  /\ t[LastVisited] # iterate
  /\ \E m \in 0..(n - 1) :
       /\ t[m] = initialIterate
       /\ Q[m] = Eye(function.d)

Symmetric(M) == \A r \in DOMAIN M : \A k \in DOMAIN M : M[r][k] = M[k][r]

\* the secant pair of component 0 in the current state
PairS == VSub(iterate, t[0])

PairY == VSub(Gradient(function, iterate, 0), y[0])

\* C16: the rank-two update Qnew = Q + y y^T / (y^T s) - Q s s^T Q /
\* (s^T Q s) gives a symmetric Qnew whenever Q is symmetric, and Qnew * s = y
\* whenever both denominators are non-zero (exact arithmetic)
C16_RankTwoSecant ==
  [][pc = "rankTwo" =>
      /\ (Symmetric(Q[0]) => Symmetric(Q'[0]))
      /\ ((Dot(PairY, PairS) # Zero /\ Dot(VecM(PairS, Q[0]), PairS) # Zero)
            => MVec(Q'[0], PairS) = PairY)]_vars

\* C16's case: the update was applied with a secant pair whose s has no
\* zero entry and gave a symmetric matrix of numbers that is not diagonal
\* and satisfies the secant equation
C16_Witness ==
  /\ pc = "rankTwoDone"
  /\ PairS[1] # Zero /\ PairS[2] # Zero
  /\ MFinite(Q[0])
  /\ Symmetric(Q[0])
  /\ Q[0][1][2] # Zero
  /\ MVec(Q[0], PairS) = PairY

\* the steps of one sweep: its start, n inner steps, the evaluation of the
\* objective, the move to the next sweep
SweepLength == n + 3

\* the steps left from the loop head of sweep ii, its exit included
StepsFromHead(ii) == (maxIterations - ii) * SweepLength + 1

\* an upper bound of the steps a run with a limit can still take
StepsLeft ==
  CASE pc = "start" -> StepsFromHead(1) + 1
    [] pc = "outer" -> StepsFromHead(i)
    [] pc = "inner" -> StepsFromHead(i) - 1 - j
    [] pc = "check" -> StepsFromHead(i) - 2 - n
    [] pc = "done" -> 0

\* the run is at a statement of lines 36-131 that executes next
CanStep ==
  \/ pc = "start"
  \/ pc = "outer"
  \/ pc = "inner" /\ j <= n
  \/ pc = "check"

\* C17: with maxIterations = 0 the sweep budget never fires: the loop
\* condition of line 67 holds whenever it is tested (the counter starts at
\* 1 and only grows) and no run ends as MAX_ITERATIONS_REACHED, so a run
\* ends only from inside a sweep and goes on for as many sweeps as the
\* objective stays finite and not below the tolerance; with
\* maxIterations >= 1 every run terminates: a run that has not ended can
\* take a step, and every step lowers a bound of the steps left that
\* is never negative
C17_BudgetAndTermination ==
  /\ [](maxIterations = 0 =>
         /\ outcome # "MAX_ITERATIONS_REACHED"
         /\ (pc = "outer" => LoopContinues(i, maxIterations))
         /\ (Done => Len(visits) >= 1))
  /\ [](maxIterations >= 1 =>
         /\ StepsLeft >= 0
         /\ (StepsLeft = 0 <=> Done)
         /\ (Done \/ CanStep))
  /\ [][maxIterations >= 1 => StepsLeft' < StepsLeft]_vars

\* C17's case: a run without a limit has made every sweep modelled, each
\* with a finite objective not below the tolerance, and is still running
C17_Witness ==
  /\ maxIterations = 0
  /\ pc = "outer"
  /\ outcome = "RUNNING"
  /\ Sweeps = MaxSweeps
  /\ updates >= 1
  /\ \A k \in 1..Len(trace) :
       /\ IsFinite(trace[k])
       /\ ~RLess(trace[k], tolerance)
====
